---- MODULE Spec2Model ----
(***************************************************************************)
(* Comparative statistics engine of nba-biplayer-statistics: the row       *)
(* matcher (utils.row_in_df, utils.keep_row_if_in_df), the participation   *)
(* classifier (parsing.in_dfs_to_color), the category splitter             *)
(* (parsing.get_plotting_dfs) and the aggregator and joint sorter          *)
(* (utils.get_wins_percentage, utils.sort_as_one, parsing.get_final_data). *)
(*                                                                         *)
(* A DataFrame is a sequence of rows; a row is a record whose field        *)
(* "index" is the pandas index label (the row's identity) and whose other  *)
(* fields are the columns.  A Series passed around as a row is a record of *)
(* the columns alone.  A float percentage is the integer number of         *)
(* 10^-PRECISION percent it stands for (33.33 is 3333).                    *)
(***************************************************************************)
EXTENDS Integers, Sequences, FiniteSets

VARIABLES
    pc,              \* stage of the request: "input", "classified", "call", "done"
    df_team,         \* the team's table (x, y, date)
    dfs_compare,     \* the two players' tables (x, y, date)
    player_colors,   \* the two per-player colors
    both_color,      \* color of a game both players took part in
    neutral_color,   \* color of a game neither took part in
    neutral_ecolor,  \* edge color of a game neither took part in
    df,              \* the team's table once in_dfs_to_color has annotated it
    args,            \* the last utility call: its name (op) and arguments
    ret              \* what that call returned, or the error it raised

vars ==
    <<pc, df_team, dfs_compare, player_colors, both_color, neutral_color,
      neutral_ecolor, df, args, ret>>

---------------------------------------------------------------------------
(* Bounds and sample values                                                *)

\* Largest number of rows of the three input tables of a request together.
MaxRows == 3

\* Largest number of rows of the table the row matcher is probed against.
MaxTableRows == 2

\* Points scored by either side of a game: two values give x < y, x = y, x > y.
Points == {0, 1}

\* Date labels of games.
Dates == {"Sun, Jun 5", "Sat, May 7"}

\* The PTS column of a player's game log.
Scores == {7, 30}

\* Color strings.
Red == "#EF798A"
Blue == "#68C5DB"
Purple == "#ABA2E9"
Grey == "#666666"
Black == "#000000"
LightGrey == "#E0E0E0"

\* The columns of a normalized game row.
Columns == {"x", "y", "date"}

\* Every normalized game row, as a Series (no index label).
Rows == [x : Points, y : Points, date : Dates]

\* Every row of a player's game log that still carries its score.
ScoredRows == [x : Points, y : Points, date : Dates, score : Scores]

\* The DataFrame whose i-th row is the Series s[i], under a fresh RangeIndex.
DataFrame(s) ==
    [i \in DOMAIN s |-> [index |-> i, x |-> s[i].x, y |-> s[i].y, date |-> s[i].date]]

\* Every sequence over S of length lo..hi.
SeqsOf(S, lo, hi) == UNION {[1..n -> S] : n \in lo..hi}

\* Every table of lo..hi rows.
Tables(lo, hi) == {DataFrame(s) : s \in SeqsOf(Rows, lo, hi)}

\* The call record of a request that has made no utility call yet.
NoCall == [op |-> "none"]

\* The return record before any call has returned.
NoRet == [status |-> "none"]

---------------------------------------------------------------------------
(* utils.py: the row matcher                                               *)

\* row_in_df with any in place of all: a row that agrees on one column counts.
row_in_df_any_column(row, table) ==
    \E i \in DOMAIN table : \E c \in Columns : table[i][c] = row[c]

\* (df == row).all(1).any(): some row of df equals row on every column.
row_in_df(row, table) ==
    \E i \in DOMAIN table : \A c \in Columns : table[i][c] = row[c]

\* The empty Series keep_row_if_in_df returns for a row it does not keep.
EmptySeries == [empty |-> TRUE]

\* keep_row_if_in_df looking up row_original (its score dropped) instead of
\* row_changed.
keep_row_if_original_in_df(table, row_original, row_changed) ==
    IF row_in_df([c \in Columns |-> row_original[c]], table)
    THEN row_original ELSE EmptySeries

\* row_original if row_changed is in the table, otherwise an empty Series.
keep_row_if_in_df(table, row_original, row_changed) ==
    IF row_in_df(row_changed, table) THEN row_original ELSE EmptySeries

---------------------------------------------------------------------------
(* parsing.py: the participation classifier                                *)

\* dict_colors with the two players' keys exchanged.
dict_colors_swapped(p_colors, b_color, n_color) ==
    [k \in BOOLEAN \X BOOLEAN |->
        CASE k = <<FALSE, FALSE>> -> n_color
          [] k = <<TRUE, FALSE>> -> p_colors[2]
          [] k = <<FALSE, TRUE>> -> p_colors[1]
          [] k = <<TRUE, TRUE>> -> b_color]

\* dict_colors: the color of each (in first player's log, in second's) pair.
dict_colors(p_colors, b_color, n_color) ==
    [k \in BOOLEAN \X BOOLEAN |->
        CASE k = <<FALSE, FALSE>> -> n_color
          [] k = <<TRUE, FALSE>> -> p_colors[1]
          [] k = <<FALSE, TRUE>> -> p_colors[2]
          [] k = <<TRUE, TRUE>> -> b_color]

\* The edge color lambda with its test inverted.
ecolor_inverted(x, n_color, n_ecolor) == IF x = n_color THEN x ELSE n_ecolor

\* lambda x: x if x != neutral_color else neutral_ecolor
ecolor_of(x, n_color, n_ecolor) == IF x # n_color THEN x ELSE n_ecolor

\* The Series a row of a table is when DataFrame.apply(axis = 1) hands it over.
AsSeries(r) == [x |-> r.x, y |-> r.y, date |-> r.date]

\* The table with its color and ecolor columns set.
in_dfs_to_color(table, compare, p_colors, b_color, n_color, n_ecolor) ==
    LET colors == [i \in DOMAIN table |->
                      dict_colors(p_colors, b_color, n_color)[
                          <<row_in_df(AsSeries(table[i]), compare[1]),
                            row_in_df(AsSeries(table[i]), compare[2])>>]]
        ecolors == [i \in DOMAIN table |-> ecolor_of(colors[i], n_color, n_ecolor)]
    IN  [i \in DOMAIN table |->
            [index |-> table[i].index, x |-> table[i].x, y |-> table[i].y,
             date |-> table[i].date, color |-> colors[i], ecolor |-> ecolors[i]]]

---------------------------------------------------------------------------
(* parsing.py: the category splitter.  df[mask] is SelectSeq: the rows the  *)
(* boolean mask keeps, in order, each with its index label.                *)

\* The table with its color and ecolor columns set to one value, as the
\* assignment of a Series aligned on the index labels does.
Greyed(table, n_color) ==
    [i \in DOMAIN table |->
        [index |-> table[i].index, x |-> table[i].x, y |-> table[i].y,
         date |-> table[i].date, color |-> n_color, ecolor |-> n_color]]

\* get_plotting_dfs returning the two tables in the other order.
get_plotting_dfs_flipped(table, color, n_color) ==
    LET color_criteria(r) == r.color = color
        not_color_criteria(r) == ~color_criteria(r)
    IN  <<SelectSeq(table, color_criteria), Greyed(SelectSeq(table, not_color_criteria), n_color)>>

\* get_plotting_dfs keeping a row of the requested color in both tables.
get_plotting_dfs_overlap(table, color, n_color) ==
    LET color_criteria(r) == r.color = color
    IN  <<Greyed(table, n_color), SelectSeq(table, color_criteria)>>

\* (df_color_no, df_color_yes): the rows of another color greyed out, and the
\* rows of the requested color as they are.
get_plotting_dfs(table, color, n_color) ==
    LET color_criteria(r) == r.color = color
        not_color_criteria(r) == ~color_criteria(r)
        df_color_yes == SelectSeq(table, color_criteria)
        df_color_no == SelectSeq(table, not_color_criteria)
    IN  <<Greyed(df_color_no, n_color), df_color_yes>>

---------------------------------------------------------------------------
(* utils.py: the win ratio                                                 *)

\* The precision get_final_data rounds to; a percentage is kept in units of
\* 10^-PRECISION percent.
PRECISION == 2

\* round(num / den, ndigits) of a non-negative quotient, to the nearest
\* multiple of 10^-ndigits with ties to the even one.
round_(num, den, ndigits) ==
    LET scaled == num * 10^ndigits
        q == scaled \div den
        r == scaled % den
        m == IF 2 * r < den THEN q
             ELSE IF 2 * r > den THEN q + 1
             ELSE IF q % 2 = 0 THEN q ELSE q + 1
    IN  m * 10^(PRECISION - ndigits)

\* The win count with the comparison turned around.
wins_reversed(table) ==
    LET won(r) == r.x > r.y
    IN  Len(SelectSeq(table, won))

\* The win count that also counts a game with x equal to y.
wins_or_draws(table) ==
    LET won(r) == r.x <= r.y
    IN  Len(SelectSeq(table, won))

\* len(df[df.x < df.y])
wins(table) ==
    LET won(r) == r.x < r.y
    IN  Len(SelectSeq(table, won))

\* round(len(df[df.x < df.y]) / len(df) * 100, precision), and 0 when the
\* division raises ZeroDivisionError.
get_wins_percentage(table, precision) ==
    IF Len(table) = 0 THEN 0
    ELSE round_(wins(table) * 100, Len(table), precision)

---------------------------------------------------------------------------
(* utils.py and parsing.py: the joint sort                                 *)

\* A value a call returned.
Returned(v) == [status |-> "ok", value |-> v]

\* The error a call raised instead of returning.
Raised(e) == [status |-> e]

\* The smallest of a non-empty set of naturals.
Min(S) == CHOOSE m \in S : \A n \in S : m <= n

\* list(zip(*args)): the i-th tuple holds the i-th element of every
\* sequence, up to the shortest one.
zip_(seqs) ==
    [i \in 1..Min({Len(seqs[k]) : k \in DOMAIN seqs}) |->
        [k \in DOMAIN seqs |-> seqs[k][i]]]

\* s reversed.
Reversed(s) == [i \in 1..Len(s) |-> s[Len(s) + 1 - i]]

\* The comparison that leaves two tuples of equal ratios unordered, as a sort
\* on the ratios alone would.
tuple_lt_ratio_only(a, b) ==
    IF a[1] < b[1] THEN "True" ELSE "False"

\* a < b for two of the zipped tuples (ratio, dataset pair, ...): Python looks
\* for the first position where they differ.  Equal ratios send it to the
\* dataset pairs, and == on two DataFrames either raises ValueError (labels
\* differ) or gives a DataFrame whose truth value raises ValueError.
tuple_lt(a, b) ==
    IF a[1] # b[1]
    THEN IF a[1] < b[1] THEN "True" ELSE "False"
    ELSE "ValueError"

\* The ascending sorted list s with e inserted behind the elements not
\* greater than it, or the error a comparison raised.
RECURSIVE insort(_, _)
insort(s, e) ==
    IF Len(s) = 0 THEN Returned(<<e>>)
    ELSE LET last == s[Len(s)]
             c == tuple_lt(e, last)
         IN  IF c = "ValueError" THEN Raised("ValueError")
             ELSE IF c = "False" THEN Returned(Append(s, e))
             ELSE LET r == insort(SubSeq(s, 1, Len(s) - 1), e)
                  IN  IF r.status # "ok" THEN r
                      ELSE Returned(Append(r.value, last))

\* The stable ascending sort of s by tuple_lt, or the error raised.
RECURSIVE sort_ascending(_)
sort_ascending(s) ==
    IF Len(s) = 0 THEN Returned(<<>>)
    ELSE LET r == sort_ascending(SubSeq(s, 1, Len(s) - 1))
         IN  IF r.status # "ok" THEN r ELSE insort(r.value, s[Len(s)])

\* sorted(s, reverse = reverse): list.sort reverses, sorts ascending and
\* reverses again when reverse is set.
sorted_(s, reverse) ==
    IF reverse
    THEN LET r == sort_ascending(Reversed(s))
         IN  IF r.status # "ok" THEN r ELSE Returned(Reversed(r.value))
    ELSE sort_ascending(s)

\* sort_as_one leaving the sequences after the ratios in their input order.
sort_as_one_keys_only(seqs, reverse) ==
    LET r == sorted_(zip_(seqs), reverse)
    IN  IF r.status # "ok" THEN r
        ELSE Returned([k \in DOMAIN seqs |->
                 IF k = 1 THEN [i \in DOMAIN r.value |-> r.value[i][k]]
                 ELSE [i \in DOMAIN r.value |-> seqs[k][i]]])

\* zip(*sorted(zip(*args), reverse = reverse)): the sequences reordered
\* together, or the error the sort raised.
sort_as_one(seqs, reverse) ==
    LET r == sorted_(zip_(seqs), reverse)
    IN  IF r.status # "ok" THEN r
        ELSE Returned([k \in DOMAIN seqs |->
                 [i \in DOMAIN r.value |-> r.value[i][k]]])

\* The four labels get_final_data builds from the two player names, each
\* f-string as the sequence of its parts.
text_ends(player_names) ==
    << <<"with ", player_names[1], " and no ", player_names[2]>>,
       <<"with ", player_names[2], " and no ", player_names[1]>>,
       <<"with both ", player_names[1], " and ", player_names[2]>>,
       <<"with neither ", player_names[1], " and ", player_names[2]>> >>

\* The rows of a table whose color is the given one: df[df["color"] == color].
OfColor(table, color) ==
    LET is_color(r) == r.color = color
    IN  SelectSeq(table, is_color)

\* The ratios, dataset pairs, colors and labels of the categories sorted as
\* one by ratio, highest first, or the error the sort raised.
get_final_data(table, colors, n_color, player_names) ==
    LET df_tuples == [k \in DOMAIN colors |->
                         get_plotting_dfs(table, colors[k], n_color)]
        percentages == [k \in DOMAIN colors |->
                           get_wins_percentage(OfColor(table, colors[k]), PRECISION)]
    IN  sort_as_one(<<percentages, df_tuples, colors, text_ends(player_names)>>, TRUE)

---------------------------------------------------------------------------
(* The classification of one request                                       *)

\* The inputs of a request: a schedule of at least one game and two game
\* logs, MaxRows rows in all; each configurable color is a color of its own
\* or the same string as the neutral color.
Inputs ==
    /\ \E a \in 1..MaxRows : \E b \in 0..(MaxRows - a) :
         /\ df_team \in Tables(a, a)
         /\ dfs_compare \in Tables(0, b) \X Tables(0, MaxRows - a - b)
    /\ player_colors \in {Red, Grey} \X {Blue, Grey}
    /\ both_color \in {Purple, Grey}
    /\ neutral_color = Grey
    /\ neutral_ecolor = Black

Init ==
    /\ Inputs
    /\ pc = "input"
    /\ df = <<>>
    /\ args = NoCall
    /\ ret = NoRet

\* parsing.in_dfs_to_color on the request's tables and colors.
InDfsToColor ==
    /\ pc = "input"
    /\ df' = in_dfs_to_color(df_team, dfs_compare, player_colors, both_color,
                             neutral_color, neutral_ecolor)
    /\ pc' = "classified"
    /\ UNCHANGED <<df_team, dfs_compare, player_colors, both_color,
                   neutral_color, neutral_ecolor, args, ret>>

Next == InDfsToColor

Spec == Init /\ [][Next]_vars

\* Row r of the classified table equals some row of the player table p on
\* x, y and date.
InLog(r, p) ==
    \E j \in 1..Len(p) : p[j].x = r.x /\ p[j].y = r.y /\ p[j].date = r.date

\* C1: in_dfs_to_color returns the team's rows, each with exactly the color
\* the pair (row in first log, row in second log) fixes: neither ->
\* neutral_color, first only -> player_colors[0], second only ->
\* player_colors[1], both -> both_color.
C1_ColorByParticipation ==
    pc = "classified" =>
        /\ Len(df) = Len(df_team)
        /\ \A i \in 1..Len(df) :
             LET in1 == InLog(df_team[i], dfs_compare[1])
                 in2 == InLog(df_team[i], dfs_compare[2])
             IN  /\ AsSeries(df[i]) = AsSeries(df_team[i])
                 /\ (~in1 /\ ~in2) => df[i].color = neutral_color
                 /\ (in1 /\ ~in2) => df[i].color = player_colors[1]
                 /\ (~in1 /\ in2) => df[i].color = player_colors[2]
                 /\ (in1 /\ in2) => df[i].color = both_color

\* A classified table with a game of the first player alone and a game of
\* neither, in different colors.
C1_Witness ==
    /\ pc = "classified"
    /\ player_colors[1] # neutral_color
    /\ \E i, j \in 1..Len(df) :
         /\ InLog(df_team[i], dfs_compare[1]) /\ ~InLog(df_team[i], dfs_compare[2])
         /\ ~InLog(df_team[j], dfs_compare[1]) /\ ~InLog(df_team[j], dfs_compare[2])
         /\ df[i].color = player_colors[1]
         /\ df[j].color = neutral_color

\* C2: in the classified table ecolor is color where color differs from
\* neutral_color and neutral_ecolor where color is neutral_color, also for a
\* player color or both_color that is the same string as neutral_color.
C2_EdgeColor ==
    pc = "classified" =>
        \A i \in 1..Len(df) :
            /\ df[i].color # neutral_color => df[i].ecolor = df[i].color
            /\ df[i].color = neutral_color => df[i].ecolor = neutral_ecolor

\* A game of the first player alone whose player color is the same string as
\* the neutral color: its edge color is neutral_ecolor, not its color.
C2_Witness ==
    /\ pc = "classified"
    /\ player_colors[1] = neutral_color
    /\ \E i \in 1..Len(df) :
         /\ InLog(df_team[i], dfs_compare[1]) /\ ~InLog(df_team[i], dfs_compare[2])
         /\ df[i].color = player_colors[1]
         /\ df[i].ecolor = neutral_ecolor
         /\ df[i].ecolor # df[i].color

---------------------------------------------------------------------------
(* The categories of a classified table                                    *)

\* The display names of the two players.
PlayerNames == <<"Curry", "Durant">>

\* The colors of the four categories of the request, in the order
\* get_final_data labels them.
CategoryColors == <<player_colors[1], player_colors[2], both_color, neutral_color>>

\* The state get_comparative_stats leaves: the classified table and the
\* colors; the players' tables were its locals.
InitCategories ==
    /\ \E a \in 1..MaxRows : \E b \in 0..(MaxRows - a) :
         \E t \in Tables(a, a) :
         \E p \in Tables(0, b) \X Tables(0, MaxRows - a - b) :
         \E pcs \in {Red, Grey} \X {Blue, Grey} :
         \E bc \in {Purple, Grey} :
            /\ player_colors = pcs
            /\ both_color = bc
            /\ df = in_dfs_to_color(t, p, pcs, bc, Grey, Black)
    /\ neutral_color = Grey
    /\ neutral_ecolor = Black
    /\ df_team = <<>>
    /\ dfs_compare = <<<<>>, <<>>>>
    /\ pc = "classified"
    /\ args = NoCall
    /\ ret = NoRet

\* The caller's table if the two assignments of get_plotting_dfs wrote
\* through to it: every row of another color greyed.
df_greyed_in_place(table, color, n_color) ==
    [i \in DOMAIN table |->
        IF table[i].color = color THEN table[i]
        ELSE [table[i] EXCEPT !.color = n_color, !.ecolor = n_color]]

\* The caller's table after get_plotting_dfs(df, color, neutral_color):
\* df[~color_criteria] is a new frame, so the assignments to the color and
\* ecolor columns of df_color_no do not reach df.
df_after_get_plotting_dfs(table, color, n_color) == table

\* parsing.get_plotting_dfs on the classified table, for one category color;
\* the table stays as it is and further calls may follow.
GetPlottingDfs ==
    /\ pc = "classified"
    /\ \E k \in DOMAIN CategoryColors :
         /\ args' = [op |-> "get_plotting_dfs", color |-> CategoryColors[k],
                     neutral_color |-> LightGrey]
         /\ ret' = Returned(get_plotting_dfs(df, CategoryColors[k], LightGrey))
         /\ df' = df_after_get_plotting_dfs(df, CategoryColors[k], LightGrey)
    /\ UNCHANGED <<pc, df_team, dfs_compare, player_colors, both_color,
                   neutral_color, neutral_ecolor>>

\* utils.get_wins_percentage on the rows of one category, to a precision of
\* the caller's; the request ends with the ratio.
GetWinsPercentage ==
    /\ pc = "classified"
    /\ \E k \in DOMAIN CategoryColors : \E precision \in 0..PRECISION :
         /\ args' = [op |-> "get_wins_percentage",
                     df |-> OfColor(df, CategoryColors[k]),
                     precision |-> precision]
         /\ ret' = Returned(get_wins_percentage(OfColor(df, CategoryColors[k]),
                                                precision))
    /\ pc' = "done"
    /\ UNCHANGED <<df_team, dfs_compare, player_colors, both_color,
                   neutral_color, neutral_ecolor, df>>

\* parsing.get_final_data on the classified table and the four category
\* colors; the request ends with its result.
GetFinalData ==
    /\ pc = "classified"
    /\ args' = [op |-> "get_final_data", colors |-> CategoryColors,
                neutral_color |-> LightGrey, player_names |-> PlayerNames]
    /\ ret' = get_final_data(df, CategoryColors, LightGrey, PlayerNames)
    /\ pc' = "done"
    /\ UNCHANGED <<df_team, dfs_compare, player_colors, both_color,
                   neutral_color, neutral_ecolor, df>>

NextCategories == GetPlottingDfs \/ GetWinsPercentage \/ GetFinalData

SpecCategories == InitCategories /\ [][NextCategories]_vars

\* The index labels of a table.
Labels(table) == {table[i].index : i \in 1..Len(table)}

C3_WitnessNone ==
    /\ args.op = "get_plotting_dfs"
    /\ Len(ret.value[1]) = Len(df)
    /\ Len(ret.value[2]) = 0

\* A split in which every row has the requested color.
C3_WitnessAll ==
    /\ args.op = "get_plotting_dfs"
    /\ Len(ret.value[1]) = 0
    /\ Len(ret.value[2]) = Len(df)

Abs(n) == IF n < 0 THEN -n ELSE n

\* C5: for a table of n >= 1 rows get_wins_percentage is 100 * (rows with
\* x < y) / n rounded to the precision: a multiple of 10^-precision no
\* further than half of it from the quotient, within 0..100, a row with x = y
\* not counted; for a table without rows it is 0 and nothing is raised.
C5_WinRatio ==
    args.op = "get_wins_percentage" =>
        LET n == Len(args.df)
            won == Cardinality({i \in 1..n : args.df[i].x < args.df[i].y})
            unit == 10^(PRECISION - args.precision)
            v == ret.value
        IN  /\ ret.status = "ok"
            /\ n = 0 => v = 0
            /\ n > 0 =>
                 /\ v % unit = 0
                 /\ 2 * Abs(v * n - won * 100 * 10^PRECISION) <= n * unit
                 /\ 0 <= v /\ v <= 100 * 10^PRECISION

\* One win in three games, one of them with x equal to y, rounded to a
\* precision at which 100 / 3 is not exact.
C5_Witness ==
    /\ args.op = "get_wins_percentage"
    /\ Len(args.df) = 3
    /\ \E i \in 1..3 : args.df[i].x = args.df[i].y
    /\ args.precision = 1
    /\ ret.value = 3330

\* The ratio of a table without rows.
C5_WitnessEmpty ==
    /\ args.op = "get_wins_percentage"
    /\ Len(args.df) = 0
    /\ ret = Returned(0)

\* C6, as claimed: for every classified table get_final_data returns the four
\* sequences ordered by ratio, highest first.
C6_OrderedByRatio ==
    args.op = "get_final_data" =>
        /\ ret.status = "ok"
        /\ \A i, j \in 1..Len(ret.value[1]) :
             i < j => ret.value[1][i] >= ret.value[1][j]

\* C8, as claimed: get_final_data on a table with a category of no rows
\* raises nothing and returns four results, the empty categories' ratio 0.
C8_EmptyCategoryNoError ==
    (/\ args.op = "get_final_data"
     /\ \E k \in 1..4 : Len(OfColor(df, args.colors[k])) = 0) =>
        /\ ret.status = "ok"
        /\ \A k \in 1..4 : Len(ret.value[k]) = 4
        /\ \A k \in 1..4 :
             Len(OfColor(df, args.colors[k])) = 0 =>
                \E i \in 1..4 : ret.value[3][i] = args.colors[k] /\ ret.value[1][i] = 0

---------------------------------------------------------------------------
(* The joint sort on its own                                               *)

\* The ratios get_wins_percentage gives tables of up to MaxRows rows.
Percentages ==
    {get_wins_percentage(DataFrame([i \in 1..n |->
            [x |-> 0, y |-> IF i <= w THEN 1 ELSE 0, date |-> "Sun, Jun 5"]]),
        PRECISION) : <<n, w>> \in {nw \in (0..MaxRows) \X (0..MaxRows) : nw[2] <= nw[1]}}

\* Dataset pairs as get_plotting_dfs returns them: of a one-game table split
\* on its own color and on another.
DatasetPairs ==
    LET game == DataFrame(<<[x |-> 0, y |-> 1, date |-> "Sun, Jun 5"]>>)
        one == in_dfs_to_color(game, <<game, <<>>>>, <<Red, Blue>>, Purple, Grey, Black)
    IN  {get_plotting_dfs(one, c, LightGrey) : c \in {Red, Blue}}

\* Four ratios, four dataset pairs, four colors and the four labels, about
\* to be sorted as one.
InitSort ==
    /\ \E percentages \in [1..4 -> Percentages] :
       \E df_tuples \in [1..4 -> DatasetPairs] :
       \E colors \in {Red, Grey} \X {Blue, Grey} \X {Purple, Grey} \X {Grey} :
         args = [op |-> "sort_as_one",
                 seqs |-> <<percentages, df_tuples, colors, text_ends(PlayerNames)>>,
                 reverse |-> TRUE]
    /\ pc = "call"
    /\ ret = NoRet
    /\ df = <<>>
    /\ df_team = <<>>
    /\ dfs_compare = <<<<>>, <<>>>>
    /\ player_colors = <<Red, Blue>>
    /\ both_color = Purple
    /\ neutral_color = Grey
    /\ neutral_ecolor = Black

\* utils.sort_as_one on the four sequences.
SortAsOne ==
    /\ pc = "call"
    /\ args.op = "sort_as_one"
    /\ ret' = sort_as_one(args.seqs, args.reverse)
    /\ pc' = "done"
    /\ UNCHANGED <<df_team, dfs_compare, player_colors, both_color,
                   neutral_color, neutral_ecolor, df, args>>

NextSort == SortAsOne

SpecSort == InitSort /\ [][NextSort]_vars

\* Every way to arrange the positions 1..n.
Arrangements(n) == {f \in [1..n -> 1..n] : \A i, j \in 1..n : f[i] = f[j] => i = j}

\* The ratios handed to sort_as_one are pairwise distinct.
DistinctRatios ==
    \A i, j \in 1..4 : args.seqs[1][i] = args.seqs[1][j] => i = j

\* C7: sort_as_one with reverse = True on four sequences with pairwise
\* distinct ratios returns them under one permutation of the positions, the
\* same for ratios, dataset pairs, colors and labels, with the ratios
\* strictly decreasing.
C7_LockStepDescending ==
    (pc = "done" /\ args.op = "sort_as_one" /\ args.reverse /\ DistinctRatios) =>
        /\ ret.status = "ok"
        /\ \E f \in Arrangements(4) :
             \A k \in 1..4 : ret.value[k] = [i \in 1..4 |-> args.seqs[k][f[i]]]
        /\ \A i \in 1..3 : ret.value[1][i] > ret.value[1][i + 1]

\* Four distinct ratios that were not in order, sorted.
C7_Witness ==
    /\ pc = "done"
    /\ args.op = "sort_as_one"
    /\ DistinctRatios
    /\ args.seqs[1][1] < args.seqs[1][2]
    /\ args.seqs[1][3] > args.seqs[1][4]
    /\ args.seqs[1][2] > args.seqs[1][3]
    /\ ret.status = "ok"
    /\ ret.value[4] # args.seqs[4]

---------------------------------------------------------------------------
(* The row matcher on its own                                              *)

\* A table to look rows up in.
InitMatch ==
    /\ df_team \in Tables(0, MaxTableRows)
    /\ pc = "call"
    /\ args = NoCall
    /\ ret = NoRet
    /\ df = <<>>
    /\ dfs_compare = <<<<>>, <<>>>>
    /\ player_colors = <<Red, Blue>>
    /\ both_color = Purple
    /\ neutral_color = Grey
    /\ neutral_ecolor = Black

\* utils.row_in_df on a row and the table.
RowInDf ==
    /\ pc = "call"
    /\ \E row \in Rows :
         /\ args' = [op |-> "row_in_df", row |-> row]
         /\ ret' = Returned(row_in_df(row, df_team))
    /\ pc' = "done"
    /\ UNCHANGED <<df_team, dfs_compare, player_colors, both_color,
                   neutral_color, neutral_ecolor, df>>

\* utils.keep_row_if_in_df on the table, a scored row of a game log and a
\* row to look up.
KeepRowIfInDf ==
    /\ pc = "call"
    /\ \E row_original \in ScoredRows : \E row_changed \in Rows :
         /\ args' = [op |-> "keep_row_if_in_df", row_original |-> row_original,
                     row_changed |-> row_changed]
         /\ ret' = Returned(keep_row_if_in_df(df_team, row_original, row_changed))
    /\ pc' = "done"
    /\ UNCHANGED <<df_team, dfs_compare, player_colors, both_color,
                   neutral_color, neutral_ecolor, df>>

NextMatch == RowInDf \/ KeepRowIfInDf

SpecMatch == InitMatch /\ [][NextMatch]_vars

\* Some row of the table has the x, the y and the date of r.
Found(r) ==
    \E i \in 1..Len(df_team) :
        df_team[i].x = r.x /\ df_team[i].y = r.y /\ df_team[i].date = r.date

\* C9: row_in_df is true exactly when some row of the table equals the row
\* on x, y and date; so it is false for a table without rows and for a row
\* that agrees with the table's rows on some of the fields only.
C9_RowInDf ==
    args.op = "row_in_df" =>
        /\ ret.status = "ok"
        /\ ret.value = Found(args.row)
        /\ Len(df_team) = 0 => ret.value = FALSE

\* A row not found although a row of the table has its x and y, and another
\* (or the same) its date.
C9_Witness ==
    /\ args.op = "row_in_df"
    /\ ret.value = FALSE
    /\ \E i \in 1..Len(df_team) :
         /\ df_team[i].x = args.row.x
         /\ df_team[i].y = args.row.y
         /\ df_team[i].date # args.row.date

\* A row found in a table of two different rows.
C9_WitnessFound ==
    /\ args.op = "row_in_df"
    /\ ret.value = TRUE
    /\ Len(df_team) = 2
    /\ AsSeries(df_team[1]) # AsSeries(df_team[2])

C10_WitnessDropped ==
    /\ args.op = "keep_row_if_in_df"
    /\ ~Found(args.row_changed)
    /\ Found(args.row_original)
    /\ ret.value = EmptySeries

\* ------------------------------------------------------------------------
\* Score labels: utils.score_to_tuple.  A label is the sequence of its
\* characters.

MaxLabelLen == 5

Digits == {"0", "1", "2", "3", "4", "5", "6", "7", "8", "9"}

\* The characters of "0123456789-WLOT ".
Alphabet == Digits \cup {"-", "W", "L", "O", "T", " "}

\* The characters labels are drawn from; "!" is outside the alphabet.
Chars == {"W", "L", "T", "1", "2", "-", " ", "!"}

\* The labels of the documentation of score_to_tuple and one label of
\* another kind of text.
DocLabels ==
    { <<"W", "1", "3", "1", "-", "1", "1", "8">>,
      <<"L", "1", "1", "2", "-", "1", "0", "9">>,
      <<"W", "1", "2", "3", "-", "1", "2", "0", " ", "O", "T">>,
      <<"P", "o", "s", "t", "p", "o", "n", "e", "d">> }

ScoreLabels == SeqsOf(Chars, 0, MaxLabelLen) \cup DocLabels

DigitValue(c) ==
    CASE c = "0" -> 0 [] c = "1" -> 1 [] c = "2" -> 2 [] c = "3" -> 3
      [] c = "4" -> 4 [] c = "5" -> 5 [] c = "6" -> 6 [] c = "7" -> 7
      [] c = "8" -> 8 [] c = "9" -> 9

\* int() of a run of decimal digits.
RECURSIVE int_(_)
int_(run) ==
    IF run = <<>> THEN 0
    ELSE int_(SubSeq(run, 1, Len(run) - 1)) * 10 + DigitValue(run[Len(run)])

\* re.findall(r"\d+", s): the maximal runs of digits of s, left to right.
RECURSIVE findall_digits(_)
findall_digits(s) ==
    IF s = <<>> THEN <<>>
    ELSE IF Head(s) \notin Digits THEN findall_digits(Tail(s))
    ELSE LET n == CHOOSE m \in 1..Len(s) :
                      /\ \A i \in 1..m : s[i] \in Digits
                      /\ m = Len(s) \/ s[m + 1] \notin Digits
         IN  <<SubSeq(s, 1, n)>> \o findall_digits(SubSeq(s, n + 1, Len(s)))

\* The result of score_to_tuple: None, or a list of integers.
None == [none |-> TRUE, list |-> <<>>]

List(l) == [none |-> FALSE, list |-> l]

\* score_to_tuple returning the numbers in reading order whatever the label.
score_to_tuple_never_reversed(score) ==
    IF \E i \in 1..Len(score) : score[i] \notin Alphabet THEN None
    ELSE LET runs == findall_digits(score)
             numbers == [k \in 1..Min({2, Len(runs)}) |-> int_(runs[k])]
         IN  List(numbers)

score_to_tuple(score) ==
    IF \E i \in 1..Len(score) : score[i] \notin Alphabet THEN None
    ELSE LET runs == findall_digits(score)
             numbers == [k \in 1..Min({2, Len(runs)}) |-> int_(runs[k])]
         IN  IF \E i \in 1..Len(score) : score[i] = "W" THEN List(numbers)
             ELSE List(Reversed(numbers))

\* One call of score_to_tuple on a label.
InitScore ==
    /\ df_team = <<>>
    /\ dfs_compare = <<<<>>, <<>>>>
    /\ player_colors = <<Red, Blue>>
    /\ both_color = Purple
    /\ neutral_color = Grey
    /\ neutral_ecolor = Black
    /\ df = <<>>
    /\ pc = "call"
    /\ ret = NoRet
    /\ \E score \in ScoreLabels : args = [op |-> "score_to_tuple", score |-> score]

ScoreToTuple ==
    /\ pc = "call"
    /\ args.op = "score_to_tuple"
    /\ ret' = Returned(score_to_tuple(args.score))
    /\ pc' = "done"
    /\ UNCHANGED <<df_team, dfs_compare, player_colors, both_color,
                   neutral_color, neutral_ecolor, df, args>>

NextScore == ScoreToTuple

SpecScore == InitScore /\ [][NextScore]_vars

\* Position i of label s starts a maximal run of digits.
RunStart(s, i) ==
    s[i] \in Digits /\ (i = 1 \/ s[i - 1] \notin Digits)

\* The last position of the run of digits of s that holds position i.
RunEnd(s, i) ==
    CHOOSE j \in i..Len(s) :
        /\ \A k \in i..j : s[k] \in Digits
        /\ j = Len(s) \/ s[j + 1] \notin Digits

RECURSIVE Pow10(_)
Pow10(n) == IF n = 0 THEN 1 ELSE 10 * Pow10(n - 1)

RECURSIVE DecimalValue(_, _, _)
DecimalValue(s, i, j) ==
    IF i > j THEN 0
    ELSE DigitValue(s[i]) * Pow10(j - i) + DecimalValue(s, i + 1, j)

\* The number written by the k-th run of digits of s, from the left.
RunValue(s, k) ==
    LET i == CHOOSE p \in 1..Len(s) :
                 /\ RunStart(s, p)
                 /\ Cardinality({q \in 1..p : RunStart(s, q)}) = k
    IN  DecimalValue(s, i, RunEnd(s, i))

RunCount(s) == Cardinality({q \in 1..Len(s) : RunStart(s, q)})

HasW(s) == \E i \in 1..Len(s) : s[i] = "W"

C11_WitnessWin ==
    /\ args.op = "score_to_tuple"
    /\ pc = "done"
    /\ args.score = <<"W", "1", "3", "1", "-", "1", "1", "8">>
    /\ ret.value = List(<<131, 118>>)

\* A label with a character outside the alphabet parsed to None.
C11_WitnessNone ==
    /\ args.op = "score_to_tuple"
    /\ pc = "done"
    /\ args.score = <<"W", "1", "-", "2", "!">>
    /\ ret.value = None

\* Only the first two of three runs of digits are taken.
C11_WitnessThreeRuns ==
    /\ args.op = "score_to_tuple"
    /\ pc = "done"
    /\ args.score = <<"1", "-", "2", "-", "1">>
    /\ ret.value = List(<<2, 1>>)

\* C12: whenever score_to_tuple returns two numbers, the first is at least
\* the second if the label holds a W, and the second is at least the first
\* if it holds none.
C12_TeamWonFirstLarger ==
    (args.op = "score_to_tuple" /\ pc = "done" /\ ret.value.none = FALSE
        /\ Len(ret.value.list) = 2) =>
        /\ HasW(args.score) => ret.value.list[1] >= ret.value.list[2]
        /\ ~HasW(args.score) => ret.value.list[2] >= ret.value.list[1]

\* ------------------------------------------------------------------------
\* Table building: parsing.get_stats from the fetched table on, for a team
\* (the date column is the fetched DATE column as it is).

MaxRawRows == 2

\* The RESULT labels of the fetched rows: two labels of the documented
\* shape, one with the smaller score first, one with one run of digits, the
\* empty label, one without digits and one outside the alphabet.
StatsLabels ==
    { <<"W", "2", "-", "1">>, <<"L", "2", "-", "1">>, <<"W", "1", "-", "2">>,
      <<"W", "1">>, <<>>, <<"-">>, <<"!">> }

RawRows == [DATE : Dates, RESULT : StatsLabels]

RawTables == SeqsOf(RawRows, 0, MaxRawRows)

\* Lines 53-55: the labels parsed, the rows of None dropped, then the rows
\* of an empty list.  A row is kept with its place in the fetched table.
parsed_rows(data) ==
    LET parsed == [i \in 1..Len(data) |->
                      [index |-> i, DATE |-> data[i].DATE,
                       RESULT |-> score_to_tuple(data[i].RESULT)]]
        not_none == SelectSeq(parsed, LAMBDA r : ~r.RESULT.none)
    IN  SelectSeq(not_none, LAMBDA r : Len(r.RESULT.list) # 0)

\* get_stats with x taken from element 0 and y from element 1.
get_stats_x_first(data) ==
    LET rows == parsed_rows(data)
    IN  IF \E i \in 1..Len(rows) : Len(rows[i].RESULT.list) < 2
        THEN Raised("IndexError")
        ELSE Returned([i \in 1..Len(rows) |->
                          [index |-> rows[i].index,
                           x |-> rows[i].RESULT.list[1],
                           y |-> rows[i].RESULT.list[2],
                           date |-> rows[i].DATE]])

\* Lines 56-59: x is element 1 of each list and y element 0 (Python counts
\* from 0); indexing a list of one number at 1 raises IndexError.
get_stats(data) ==
    LET rows == parsed_rows(data)
    IN  IF \E i \in 1..Len(rows) : Len(rows[i].RESULT.list) < 2
        THEN Raised("IndexError")
        ELSE Returned([i \in 1..Len(rows) |->
                          [index |-> rows[i].index,
                           x |-> rows[i].RESULT.list[2],
                           y |-> rows[i].RESULT.list[1],
                           date |-> rows[i].DATE]])

InitStats ==
    /\ df_team = <<>>
    /\ dfs_compare = <<<<>>, <<>>>>
    /\ player_colors = <<Red, Blue>>
    /\ both_color = Purple
    /\ neutral_color = Grey
    /\ neutral_ecolor = Black
    /\ df = <<>>
    /\ pc = "call"
    /\ ret = NoRet
    /\ \E data \in RawTables : args = [op |-> "get_stats", data |-> data]

\* get_stats: the table built is the team's table, or the call ends with
\* the exception.
GetStats ==
    /\ pc = "call"
    /\ args.op = "get_stats"
    /\ ret' = get_stats(args.data)
    /\ IF ret'.status = "ok"
       THEN df_team' = ret'.value /\ pc' = "built"
       ELSE df_team' = df_team /\ pc' = "done"
    /\ UNCHANGED <<dfs_compare, player_colors, both_color, neutral_color,
                   neutral_ecolor, df, args>>

\* utils.get_wins_percentage on the table built.
GetStatsWins ==
    /\ pc = "built"
    /\ \E precision \in 0..PRECISION :
         /\ args' = [op |-> "get_wins_percentage", df |-> df_team,
                     precision |-> precision, data |-> args.data]
         /\ ret' = Returned(get_wins_percentage(df_team, precision))
    /\ pc' = "done"
    /\ UNCHANGED <<df_team, dfs_compare, player_colors, both_color,
                   neutral_color, neutral_ecolor, df>>

NextStats == GetStats \/ GetStatsWins

SpecStats == InitStats /\ [][NextStats]_vars

\* The label parses to two integers.
YieldsPair(s) ==
    /\ \A i \in 1..Len(s) : s[i] \in Alphabet
    /\ RunCount(s) >= 2

\* C13: get_stats raises nothing, and its table holds, each with an x and a
\* y, exactly the fetched rows whose label parses to two integers: a label
\* outside the alphabet, an empty label, a label without digits and a label
\* with one run of digits all have their row left out.
C13_BadLabelsExcluded ==
    (args.op = "get_stats" /\ pc # "call") =>
        /\ ret.status = "ok"
        /\ \A i \in 1..Len(args.data) :
             YieldsPair(args.data[i].RESULT)
                 <=> \E j \in 1..Len(ret.value) : ret.value[j].index = i

\* A label of the documented shape: W or L first, two runs of digits, the
\* larger score written first.
WellFormed(s) ==
    /\ Len(s) > 0
    /\ s[1] \in {"W", "L"}
    /\ \A i \in 1..Len(s) : s[i] \in Alphabet
    /\ RunCount(s) = 2
    /\ RunValue(s, 1) > RunValue(s, 2)

\* The number of rows of the fetched table whose label holds a W.
WLabels(data) == Cardinality({i \in 1..Len(data) : HasW(data[i].RESULT)})

\* C19: a row built by get_stats from a well-formed label has x < y exactly
\* when the label holds a W; so when every fetched label is well-formed, the
\* win ratio of the table built is the percentage of labels with a W, rounded
\* to the precision asked for.
C19_WinIffW ==
    /\ (args.op = "get_stats" /\ pc = "built") =>
         \A j \in 1..Len(df_team) :
             LET s == args.data[df_team[j].index].RESULT
             IN  WellFormed(s) => (df_team[j].x < df_team[j].y <=> HasW(s))
    /\ (args.op = "get_wins_percentage" /\ pc = "done" /\ Len(args.data) > 0
          /\ \A i \in 1..Len(args.data) : WellFormed(args.data[i].RESULT)) =>
         /\ Len(args.df) = Len(args.data)
         /\ ret.value = round_(WLabels(args.data) * 100, Len(args.data),
                               args.precision)

\* A win and a loss fetched, both well-formed: the ratio is 50%.
C19_Witness ==
    /\ args.op = "get_wins_percentage"
    /\ pc = "done"
    /\ args.precision = PRECISION
    /\ Len(args.data) = 2
    /\ args.data[1].RESULT = <<"W", "2", "-", "1">>
    /\ args.data[2].RESULT = <<"L", "2", "-", "1">>
    /\ args.df[1].x = 1 /\ args.df[1].y = 2
    /\ args.df[2].x = 2 /\ args.df[2].y = 1
    /\ ret.value = 5000

\* ------------------------------------------------------------------------
\* A schedule of two games, the first played by the first player alone and
\* the second by the second player alone, classified and then rated.

ScenarioPoints == {80, 90, 95, 100}

InitScenario ==
    /\ \E xa \in ScenarioPoints, ya \in ScenarioPoints,
          xb \in ScenarioPoints, yb \in ScenarioPoints :
         /\ df_team = << [index |-> 1, x |-> xa, y |-> ya, date |-> "Sun, Jun 5"],
                         [index |-> 2, x |-> xb, y |-> yb, date |-> "Sat, May 7"] >>
         /\ dfs_compare =
              << << [index |-> 1, x |-> xa, y |-> ya, date |-> "Sun, Jun 5"] >>,
                 << [index |-> 1, x |-> xb, y |-> yb, date |-> "Sat, May 7"] >> >>
    /\ player_colors = <<Red, Blue>>
    /\ both_color = Purple
    /\ neutral_color = Grey
    /\ neutral_ecolor = Black
    /\ pc = "input"
    /\ df = <<>>
    /\ args = NoCall
    /\ ret = NoRet

NextScenario == InDfsToColor \/ GetWinsPercentage

SpecScenario == InitScenario /\ [][NextScenario]_vars

\* The schedule (x=100, y=90) at the first date and (x=80, y=95) at the
\* second, classified.
TheScenario ==
    /\ pc # "input"
    /\ df_team[1].x = 100 /\ df_team[1].y = 90
    /\ df_team[2].x = 80 /\ df_team[2].y = 95

\* The ratio asked for is the one of the first player's color, at the
\* precision of get_final_data.
RatioOfFirstPlayer ==
    /\ args.op = "get_wins_percentage"
    /\ args.df = OfColor(df, player_colors[1])
    /\ args.precision = PRECISION

RatioOfSecondPlayer ==
    /\ args.op = "get_wins_percentage"
    /\ args.df = OfColor(df, player_colors[2])
    /\ args.precision = PRECISION

\* C14 as stated: in the scenario the first game gets the first player's
\* color, the second game the second player's, and the win ratio of the
\* first player's category is 100%.
C14_ScenarioRatioFull ==
    TheScenario =>
        /\ df[1].color = player_colors[1]
        /\ df[2].color = player_colors[2]
        /\ RatioOfFirstPlayer => ret.value = 100 * 10^PRECISION

\* C14, amended: in the scenario the first game gets the first player's
\* color, the second game the second player's; the win ratio of the first
\* player's category is 0%, its one game having x = 100 not below y = 90,
\* and the win ratio of the second player's category is 100%.
C14_ScenarioRatio ==
    TheScenario =>
        /\ df[1].color = player_colors[1]
        /\ df[2].color = player_colors[2]
        /\ RatioOfFirstPlayer => ret.value = 0
        /\ RatioOfSecondPlayer => ret.value = 100 * 10^PRECISION

\* The scenario rated for the first player: one game, no win.
C14_Witness ==
    /\ TheScenario
    /\ RatioOfFirstPlayer
    /\ Len(args.df) = 1
    /\ args.df[1].date = "Sun, Jun 5"
    /\ ret.value = 0

\* ------------------------------------------------------------------------
\* The argument checks of parsing.in_dfs_to_color.  A call carries the
\* Python class of each argument and of each element of the two sequences; a
\* value is read only where its class is the one the code asks for.

ArgClasses ==
    [df : {"DataFrame", "dict"},
     dfs_compare : {"list", "tuple"},
     dfs_compare_items : {"DataFrame", "NoneType"} \X {"DataFrame", "NoneType"},
     player_colors : {"list", "tuple"},
     player_colors_items : {"str", "int"} \X {"str", "int"},
     both_color : {"str", "int"},
     neutral_color : {"str", "int"},
     neutral_ecolor : {"str", "int"}]

\* docs.check_function_args against ["pandas.DataFrame", ["list", "tuple"],
\* ["list", "tuple"], "str", "str", "str"]: TypeError at the first argument
\* of another class.
check_function_args(classes) ==
    IF /\ classes.df = "DataFrame"
       /\ classes.dfs_compare \in {"list", "tuple"}
       /\ classes.player_colors \in {"list", "tuple"}
       /\ classes.both_color = "str"
       /\ classes.neutral_color = "str"
       /\ classes.neutral_ecolor = "str"
    THEN "none" ELSE "TypeError"

\* Lines 96-102.  The message of each of the two raise statements reads i,
\* the variable of the list comprehension of the line before, which is not
\* a name of the function or of the module: building the message raises
\* NameError and the TypeError is never constructed.
arg_checks(classes) ==
    IF check_function_args(classes) # "none" THEN check_function_args(classes)
    ELSE IF \E k \in 1..2 : classes.dfs_compare_items[k] # "DataFrame"
         THEN "NameError"
    ELSE IF \E k \in 1..2 : classes.player_colors_items[k] # "str"
         THEN "NameError"
    ELSE "none"

InitChecked ==
    /\ df_team \in Tables(1, 1)
    /\ dfs_compare = <<df_team, <<>>>>
    /\ player_colors = <<Red, Blue>>
    /\ both_color = Purple
    /\ neutral_color = Grey
    /\ neutral_ecolor = Black
    /\ df = <<>>
    /\ pc = "input"
    /\ ret = NoRet
    /\ \E classes \in ArgClasses :
         args = [op |-> "in_dfs_to_color", classes |-> classes]

\* in_dfs_to_color from its first line: the checks, and the classification
\* when they pass.  An exception leaves the team's table as it was.
InDfsToColorChecked ==
    /\ pc = "input"
    /\ args.op = "in_dfs_to_color"
    /\ IF arg_checks(args.classes) # "none"
       THEN /\ ret' = Raised(arg_checks(args.classes))
            /\ df' = df
            /\ pc' = "done"
       ELSE /\ df' = in_dfs_to_color(df_team, dfs_compare, player_colors,
                                     both_color, neutral_color, neutral_ecolor)
            /\ ret' = Returned(df')
            /\ pc' = "classified"
    /\ UNCHANGED <<df_team, dfs_compare, player_colors, both_color,
                   neutral_color, neutral_ecolor, args>>

NextChecked == InDfsToColorChecked

SpecChecked == InitChecked /\ [][NextChecked]_vars

\* An element of dfs_compare is not a table, or an element of player_colors
\* or one of the three single colors is not a string.
IllTyped(classes) ==
    \/ \E k \in 1..2 : classes.dfs_compare_items[k] # "DataFrame"
    \/ \E k \in 1..2 : classes.player_colors_items[k] # "str"
    \/ classes.both_color # "str"
    \/ classes.neutral_color # "str"
    \/ classes.neutral_ecolor # "str"

\* C15: a call of in_dfs_to_color with an element of dfs_compare that is not
\* a table, or with a color that is not a string, ends with TypeError, and
\* no row of the team's table has been given a color or an ecolor.
C15_TypeErrorBeforeRows ==
    (args.op = "in_dfs_to_color" /\ pc # "input" /\ IllTyped(args.classes)) =>
        /\ ret.status = "TypeError"
        /\ df = <<>>

ScoredTables(lo, hi) ==
    {[i \in DOMAIN s |-> [index |-> i, x |-> s[i].x, y |-> s[i].y,
                          date |-> s[i].date, score |-> s[i].score]]
        : s \in SeqsOf(ScoredRows, lo, hi)}

\* i.drop("score", axis = 1)
drop_score(table) ==
    [i \in DOMAIN table |-> [index |-> table[i].index, x |-> table[i].x,
                             y |-> table[i].y, date |-> table[i].date]]

\* Lines 158-162 for one player's table: keep_row_if_in_df on every row and
\* on the row without its last column, the rows that came back empty dropped
\* as rows of NaN, then the score column dropped.  When the table has rows
\* and every one comes back empty, apply builds a frame without columns and
\* drop("score") raises KeyError.  pd.to_numeric leaves the numbers as they
\* are.
keep_rows_in_df(table, df_player) ==
    LET kept == SelectSeq(df_player, LAMBDA r :
                    keep_row_if_in_df(table, r, [c \in Columns |-> r[c]])
                        # EmptySeries)
    IN  IF Len(df_player) > 0 /\ Len(kept) = 0 THEN Raised("KeyError")
        ELSE Returned(drop_score(kept))

\* The schedule and the two game logs as get_stats returned them, MaxRows
\* rows in all, with the colors of draw_gif.
InitPrefilter ==
    /\ \E a \in 1..MaxRows : \E b \in 0..(MaxRows - a) :
         /\ df_team \in Tables(a, a)
         /\ dfs_compare \in ScoredTables(0, b) \X ScoredTables(0, MaxRows - a - b)
    /\ args = [op |-> "get_comparative_stats", df_players |-> dfs_compare]
    /\ player_colors = <<Red, Blue>>
    /\ both_color = Purple
    /\ neutral_color = Grey
    /\ neutral_ecolor = Grey
    /\ pc = "input"
    /\ df = <<>>
    /\ ret = NoRet

\* get_comparative_stats from line 158 on: both tables filtered, then the
\* team's table classified against them; or the exception of the filter.
GetComparativeStats ==
    /\ pc = "input"
    /\ args.op = "get_comparative_stats"
    /\ LET first == keep_rows_in_df(df_team, dfs_compare[1])
           second == keep_rows_in_df(df_team, dfs_compare[2])
       IN  IF first.status # "ok" \/ second.status # "ok"
           THEN /\ ret' = Raised("KeyError")
                /\ dfs_compare' = dfs_compare
                /\ df' = df
                /\ pc' = "done"
           ELSE /\ dfs_compare' = <<first.value, second.value>>
                /\ df' = in_dfs_to_color(df_team, dfs_compare', player_colors,
                                         both_color, neutral_color,
                                         neutral_ecolor)
                /\ ret' = Returned(df')
                /\ pc' = "classified"
    /\ UNCHANGED <<df_team, player_colors, both_color, neutral_color,
                   neutral_ecolor, args>>

NextPrefilter == GetComparativeStats

SpecPrefilter == InitPrefilter /\ [][NextPrefilter]_vars

\* Row r has the x, the y and the date of some row of the team's table.
InTeam(r) ==
    \E i \in 1..Len(df_team) :
        df_team[i].x = r.x /\ df_team[i].y = r.y /\ df_team[i].date = r.date

\* The team's table is classified as it would be against the players'
\* tables with no row dropped; every row left in a player's table is a game
\* of the team's table; and a player's table keeps as many rows as it had
\* games of the team's table, repeated rows included.
SameAsUnfiltered ==
    /\ df = in_dfs_to_color(df_team,
                            <<drop_score(args.df_players[1]),
                              drop_score(args.df_players[2])>>,
                            player_colors, both_color, neutral_color,
                            neutral_ecolor)
    /\ \A k \in 1..2 :
         /\ \A j \in 1..Len(dfs_compare[k]) : InTeam(dfs_compare[k][j])
         /\ Len(dfs_compare[k]) =
              Cardinality({i \in 1..Len(args.df_players[k]) :
                              InTeam(args.df_players[k][i])})

\* C17: for every team table and pair of player tables, get_comparative_stats
\* filters the player tables and classifies the team's table with the colors
\* the unfiltered tables would give; the rows left are games of the team's
\* table and repeated rows are kept.
C17_PrefilterEquivalence ==
    (args.op = "get_comparative_stats" /\ pc # "input") =>
        /\ ret.status = "ok"
        /\ SameAsUnfiltered

\* C18: no call made on the classified table changes it: after a call of
\* get_plotting_dfs every row has the x, y, date, color and ecolor it had
\* before, hence every category has the win ratio it had before, and a
\* ratio computed after any number of such calls is the ratio of the table
\* as it was.
C18_InputUnchanged ==
    [][pc = "classified" =>
          /\ df' = df
          /\ args'.op = "get_plotting_dfs" =>
               \A k \in DOMAIN CategoryColors :
                   get_wins_percentage(OfColor(df', CategoryColors[k]), PRECISION)
                       = get_wins_percentage(OfColor(df, CategoryColors[k]), PRECISION)
          /\ args'.op = "get_wins_percentage" =>
               \E k \in DOMAIN CategoryColors :
                   /\ args'.df = OfColor(df, CategoryColors[k])
                   /\ ret'.value = get_wins_percentage(args'.df, args'.precision)]_vars

\* After a split of a table of several games, a game greyed in the returned
\* table still has the first player's color and its own ecolor in the table
\* that was split.
C18_Witness ==
    /\ args.op = "get_plotting_dfs"
    /\ Len(df) > 1
    /\ \E i \in 1..Len(df) : \E j \in 1..Len(ret.value[1]) :
         /\ df[i].index = ret.value[1][j].index
         /\ df[i].color = player_colors[1]
         /\ df[i].color # args.neutral_color
         /\ df[i].ecolor = df[i].color
         /\ ret.value[1][j].color = args.neutral_color

====
